---- MODULE Spec2Model ----
(***************************************************************************)
(* Model of src/src/lib.rs: BitboardInternal<N, R>, a fixed-capacity bit   *)
(* set stored in N 64-bit words.                                           *)
(*                                                                         *)
(* A u64 word is modelled as the set of its one-bit positions (a subset of *)
(* 0..63), so that |, &, !, ^ and << are computed on all 64 bits without   *)
(* leaving the range of the model checker's integers.                      *)
(***************************************************************************)
EXTENDS Integers, Sequences, FiniteSets, TLC

VARIABLES cap, words, hist, aborted

vars == <<cap, words, hist, aborted>>

(***************************************************************************)
(* Words                                                                   *)
(***************************************************************************)

\* Width of a word (u64).
W == 64

BitPos == 0..(W - 1)

\* The u64 value of a small non-negative integer, as its set of one bits.
RECURSIVE BitsFrom(_, _)
BitsFrom(n, pos) ==
    IF n = 0 THEN {}
    ELSE (IF n % 2 = 1 THEN {pos} ELSE {}) \cup BitsFrom(n \div 2, pos + 1)

ToWord(n) == BitsFrom(n, 0) \cap BitPos

\* a | b, a & b, !a, a ^ b on u64
Or(a, b) == a \cup b
And(a, b) == a \cap b
Not(a) == BitPos \ a
Xor(a, b) == (a \ b) \cup (b \ a)

\* a << k on u64 for 0 <= k < 64: the bits shifted past bit 63 are dropped.
Shl(a, k) == {b + k : b \in a} \cap BitPos

(***************************************************************************)
(* Bitboard<N>: the two const parameters derived from the capacity         *)
(***************************************************************************)

WordCount(c) == (c - 1) \div W + 1

Remainder(c) == (c - 1) % W

\* new(): every word zero
new(c) == [k \in 0..(WordCount(c) - 1) |-> {}]

\* Off by one: the last word is taken to be outside the array.
InBoundsTight(ws, index) ==
    (index \div W) \in DOMAIN ws /\ (index \div W) + 1 \in DOMAIN ws

\* words[index / 64] is inside the array (otherwise the indexing panics)
InBounds(ws, index) == (index \div W) \in DOMAIN ws

\* The outcome of a mutating call: the words it leaves and whether it panicked.
Done(ws) == [panicked |-> FALSE, words |-> ws]
Panic(ws) == [panicked |-> TRUE, words |-> ws]

\* The outcome of a query: its value and whether it panicked.
Value(v) == [panicked |-> FALSE, value |-> v]
NoValue == [panicked |-> TRUE, value |-> FALSE]

\* 1 << (index % 64)
mask(index) == Shl(ToWord(1), index % W)

\* The shift forgotten: self.words[index / 64] |= word
set_word_noshift(ws, index, word) ==
    IF InBounds(ws, index)
    THEN Done([ws EXCEPT ![index \div W] = Or(@, word)])
    ELSE Panic(ws)

\* self.words[index / 64] |= word << (index % 64)
set_word(ws, index, word) ==
    IF InBounds(ws, index)
    THEN Done([ws EXCEPT ![index \div W] = Or(@, Shl(word, index % W))])
    ELSE Panic(ws)

\* A mask that is one bit too wide: self.set_word(index, 3)
set_two(ws, index) == set_word(ws, index, ToWord(3))

\* self.set_word(index, 1)
set(ws, index) == set_word(ws, index, ToWord(1))

\* let (word, mask) = self.word_mask_mut(index); *word |= !mask
unset(ws, index) ==
    IF InBounds(ws, index)
    THEN Done([ws EXCEPT ![index \div W] = Or(@, Not(mask(index)))])
    ELSE Panic(ws)

\* let (word, mask) = self.word_mask(index); word & mask != 0
is_set(ws, index) ==
    IF InBounds(ws, index)
    THEN Value(And(ws[index \div W], mask(index)) # {})
    ELSE NoValue

\* !self.is_set(index)
is_unset(ws, index) ==
    LET r == is_set(ws, index)
    IN  IF r.panicked THEN NoValue ELSE Value(~r.value)

\* self.words.iter().all(|&w| w == 0)
is_empty(ws) == \A k \in DOMAIN ws : ws[k] = {}

\* 2 ^ (line_size as u64) - 1: "-" binds tighter than "^" (xor)
ones_of(line_size) == Xor(ToWord(2), ToWord(line_size - 1))

\* assert!(line_size < 64), then one set_word when start_pos + line_size < 64
\* and two otherwise; the first has changed its word when the second panics.
set_whole_line(ws, line_no, line_size) ==
    IF ~(line_size < W) THEN Panic(ws)
    ELSE
    LET start_index == line_no * line_size
        start_pos == start_index % W
        ones == ones_of(line_size)
        first == set_word(ws, start_index, ones)
    IN  IF start_pos + line_size < W THEN first
        ELSE IF first.panicked THEN first
        ELSE LET second_ones == Shl(ones, W - start_pos)
                 transition_index == start_index + W - start_pos
             IN  set_word(first.words, transition_index, second_ones)

\* An assignment in place of the or: *word = other_word
add_assign_overwrite(ws, other) == [k \in DOMAIN ws |-> other[k]]

\* for each pair of words: *word |= other_word
add_assign(ws, other) == [k \in DOMAIN ws |-> Or(ws[k], other[k])]

\* A xor in place of the and-not: *word ^= other_word
sub_assign_xor(ws, other) == [k \in DOMAIN ws |-> Xor(ws[k], other[k])]

\* for each pair of words: *word &= !other_word
sub_assign(ws, other) == [k \in DOMAIN ws |-> And(ws[k], Not(other[k]))]

(***************************************************************************)
(* Inputs                                                                  *)
(***************************************************************************)

\* Number of calls made on the bitboard in one run.
MaxOps == 3

\* Capacities: one word with and without padding, two words.
Capacities == {1, 7, 64, 128}

\* Bit offsets tried in every word.
Offsets == {0, 6, 63}

\* Every sampled offset of every word, and the first index past the array.
Indices(c) ==
    {W * w + o : w \in 0..(WordCount(c) - 1), o \in Offsets} \cup {W * WordCount(c)}

ValidIndices(c) == {i \in Indices(c) : i < c}

\* <<line_no, line_size>>
Lines == {<<0, 1>>, <<0, 8>>, <<7, 8>>, <<15, 8>>, <<7, 9>>, <<0, 64>>}

\* The bitboard obtained from new() by set(i) for every i of s.
RECURSIVE FromBits(_, _)
FromBits(c, s) ==
    IF s = {} THEN new(c)
    ELSE LET i == CHOOSE x \in s : TRUE
         IN  set(FromBits(c, s \ {i}), i).words

\* The right-hand operands of += and -=.
Boards(c) ==
    {new(c), FromBits(c, {0}), FromBits(c, ValidIndices(c))}

NoBoard == << >>

(***************************************************************************)
(* The state machine                                                       *)
(***************************************************************************)

Call(op, index, line_no, line_size, other, ret) ==
    [op |-> op, index |-> index, line_no |-> line_no, line_size |-> line_size,
     other |-> other, ret |-> ret, pre |-> words]

Queries == {"is_set", "is_unset", "is_empty"}

\* A run is followed until it panics, up to MaxOps calls and up to its first
\* query: a query leaves the bitboard as it is, so whatever may be called
\* after it may be called in its place.
CanCall ==
    /\ ~aborted
    /\ Len(hist) < MaxOps
    /\ (Len(hist) > 0 => hist[Len(hist)].op \notin Queries)

Mutate(call, out) ==
    /\ words' = out.words
    /\ aborted' = out.panicked
    /\ hist' = Append(hist, call)
    /\ UNCHANGED cap

Query(op, index, out) ==
    /\ aborted' = out.panicked
    /\ hist' = Append(hist, Call(op, index, 0, 0, NoBoard, out.value))
    /\ UNCHANGED <<cap, words>>

Init ==
    /\ cap \in Capacities
    /\ words = new(cap)
    /\ hist = << >>
    /\ aborted = FALSE

Set ==
    /\ CanCall
    /\ \E index \in Indices(cap) :
          Mutate(Call("set", index, 0, 0, NoBoard, FALSE), set(words, index))

Unset ==
    /\ CanCall
    /\ \E index \in Indices(cap) :
          Mutate(Call("unset", index, 0, 0, NoBoard, FALSE), unset(words, index))

IsSet ==
    /\ CanCall
    /\ \E index \in Indices(cap) : Query("is_set", index, is_set(words, index))

IsUnset ==
    /\ CanCall
    /\ \E index \in Indices(cap) : Query("is_unset", index, is_unset(words, index))

IsEmpty ==
    /\ CanCall
    /\ Query("is_empty", 0, Value(is_empty(words)))

SetWholeLine ==
    /\ CanCall
    /\ \E l \in Lines :
          Mutate(Call("set_whole_line", 0, l[1], l[2], NoBoard, FALSE),
                 set_whole_line(words, l[1], l[2]))

AddAssign ==
    /\ CanCall
    /\ \E other \in Boards(cap) :
          Mutate(Call("add_assign", 0, 0, 0, other, FALSE),
                 Done(add_assign(words, other)))

SubAssign ==
    /\ CanCall
    /\ \E other \in Boards(cap) :
          Mutate(Call("sub_assign", 0, 0, 0, other, FALSE),
                 Done(sub_assign(words, other)))

Next ==
    \/ Set
    \/ Unset
    \/ IsSet
    \/ IsUnset
    \/ IsEmpty
    \/ SetWholeLine
    \/ AddAssign
    \/ SubAssign

Spec == Init /\ [][Next]_vars

(***************************************************************************)
(* Reading the state                                                       *)
(***************************************************************************)

\* Number of stored bits, padding included.
NBits == W * WordCount(cap)

\* Bit i of a bitboard, read from the layout: word i / 64, position i mod 64.
Bit(ws, i) == (i % W) \in ws[i \div W]

Last == hist[Len(hist)]

Acted(op) == Len(hist) > 0 /\ Last.op = op

\* The precondition of a call: a valid index, a line of 1..63 bits that fits.
PreOK(c) ==
    CASE c.op \in {"set", "unset", "is_set", "is_unset"} -> c.index < cap
      [] c.op = "set_whole_line" ->
            /\ c.line_size \in 1..(W - 1)
            /\ c.line_no * c.line_size + c.line_size <= cap
      [] OTHER -> TRUE

\* The bits of the line of a set_whole_line call.
LineBits(c) ==
    (c.line_no * c.line_size)..(c.line_no * c.line_size + c.line_size - 1)

\* The indices set and not unset since, after the first n calls.
RECURSIVE Expected(_)
Expected(n) ==
    IF n = 0 THEN {}
    ELSE LET c == hist[n]
         IN  CASE c.op = "set" -> Expected(n - 1) \cup {c.index}
               [] c.op = "unset" -> Expected(n - 1) \ {c.index}
               [] OTHER -> Expected(n - 1)

OnlyValidSetUnset(n) ==
    \A k \in 1..n : hist[k].op \in {"set", "unset"} /\ hist[k].index < cap

(***************************************************************************)
(* Claims                                                                  *)
(***************************************************************************)

\* C1: is_set(i) called right after unset(i), i a valid index, returns false.
C1_UnsetThenIsSetFalse ==
    \A k \in 1..(Len(hist) - 1) :
        (/\ hist[k].op = "unset"
         /\ hist[k].index < cap
         /\ hist[k + 1].op = "is_set"
         /\ hist[k + 1].index = hist[k].index)
        => hist[k + 1].ret = FALSE

\* C2: set_whole_line(line_no, line_size) with line_size in 1..63 and a line
\* that fits in the capacity sets exactly the bits of the line and leaves
\* every other bit as it was.
C2_LineSetsExactlyItsBits ==
    (Acted("set_whole_line") /\ PreOK(Last))
    => \A i \in 0..(NBits - 1) :
          Bit(words, i) <=> (Bit(Last.pre, i) \/ i \in LineBits(Last))

\* C3: right after set(i), i a valid index, is_set(i) returns true and
\* is_unset(i) returns false.
C3_SetThenIsSet ==
    \A k \in 1..(Len(hist) - 1) :
        (/\ hist[k].op = "set"
         /\ hist[k].index < cap
         /\ hist[k + 1].index = hist[k].index)
        => /\ hist[k + 1].op = "is_set" => hist[k + 1].ret = TRUE
           /\ hist[k + 1].op = "is_unset" => hist[k + 1].ret = FALSE
           /\ (k + 1 = Len(hist) /\ hist[k + 1].op \in {"is_set", "is_unset"})
                 => ~aborted

\* C3 happens: a bit that was clear in a bitboard that was not empty is set,
\* and is_set then returns true for it.
C3_Witness ==
    /\ Len(hist) = 3
    /\ hist[2].op = "set" /\ hist[2].index < cap
    /\ ~is_empty(hist[2].pre) /\ ~Bit(hist[2].pre, hist[2].index)
    /\ hist[3].op = "is_set" /\ hist[3].index = hist[2].index
    /\ hist[3].ret = TRUE

\* C4: after set and unset calls with valid indices only, is_empty() returns
\* true exactly when no index is set that has not been unset since, and it
\* returns false right after a set.
C4_EmptyIffAllUnset ==
    \A k \in 1..Len(hist) :
        (hist[k].op = "is_empty" /\ OnlyValidSetUnset(k - 1))
        => /\ hist[k].ret <=> (Expected(k - 1) = {})
           /\ (k > 1 /\ hist[k - 1].op = "set") => hist[k].ret = FALSE

\* C5 as claimed: set, unset, is_set and is_unset with an index >= Capacity
\* abort and leave every bit as it was.
C5_AbortsBeyondCapacity ==
    (/\ Len(hist) > 0
     /\ Last.op \in {"set", "unset", "is_set", "is_unset"}
     /\ Last.index >= cap)
    => (aborted /\ words = Last.pre)

\* C5 amended: set, unset, is_set and is_unset abort, leaving every bit as it
\* was, exactly when the index is >= WordCount*64; with an index in the
\* padding range [Capacity, WordCount*64) they do not abort.
C5_AbortsBeyondLastWord ==
    (Len(hist) > 0 /\ Last.op \in {"set", "unset", "is_set", "is_unset"})
    => /\ Last.index >= NBits => (aborted /\ words = Last.pre)
       /\ Last.index < NBits => ~aborted

\* C5 happens: a set past the last word of a bitboard that is not empty aborts.
C5_Witness ==
    /\ Acted("set") /\ Last.index >= NBits
    /\ aborted /\ ~is_empty(words)

\* C6: set(i), i a valid index, changes no is_set(j) for j # i and no word
\* other than word i / 64; on a fresh 128-bit set, set(70) leaves word 0 zero
\* and word 1 with bit 6 alone.
C6_SetChangesOnlyBitI ==
    (Acted("set") /\ Last.index < cap)
    => /\ ~aborted
       /\ \A j \in (0..(NBits - 1)) \ {Last.index} :
             is_set(words, j) = is_set(Last.pre, j)
       /\ \A k \in DOMAIN words :
             k # Last.index \div W => words[k] = Last.pre[k]
       /\ words[Last.index \div W] \ {Last.index % W}
             = Last.pre[Last.index \div W] \ {Last.index % W}
       /\ (cap = 128 /\ Len(hist) = 1 /\ Last.index = 70)
             => (words[0] = {} /\ words[1] = {6})

\* C6 happens: set(70) on a 128-bit set that has other bits set in both words.
C6_Witness ==
    /\ Acted("set") /\ cap = 128 /\ Last.index = 70
    /\ Last.pre[0] # {} /\ Last.pre[1] # {} /\ ~Bit(Last.pre, 70)
    /\ Bit(words, 70)

\* C7: A -= B leaves bit i set iff it was set in A and is not set in B; so
\* A += B followed by A -= B leaves the bits of A that are not in B (A itself
\* when A and B were disjoint), A - A is empty and A - {} = A.
C7_Difference ==
    /\ Acted("sub_assign") =>
          /\ \A i \in 0..(NBits - 1) :
                Bit(words, i) <=> (Bit(Last.pre, i) /\ ~Bit(Last.other, i))
          /\ Last.other = Last.pre => is_empty(words)
          /\ is_empty(Last.other) => words = Last.pre
    /\ \A k \in 1..(Len(hist) - 1) :
          (/\ hist[k].op = "add_assign"
           /\ hist[k + 1].op = "sub_assign"
           /\ hist[k + 1].other = hist[k].other)
          => LET A == hist[k].pre
                 B == hist[k].other
                 R == IF k + 1 = Len(hist) THEN words ELSE hist[k + 2].pre
             IN  /\ \A i \in 0..(NBits - 1) :
                       Bit(R, i) <=> (Bit(A, i) /\ ~Bit(B, i))
                 /\ (\A i \in 0..(NBits - 1) : ~(Bit(A, i) /\ Bit(B, i)))
                       <=> R = A

\* C7 happens: A += B then A -= B where A and B overlap and A has bits that
\* are not in B; the overlap is lost, the rest is kept.
C7_Witness ==
    /\ Len(hist) = 3
    /\ hist[2].op = "add_assign" /\ hist[3].op = "sub_assign"
    /\ hist[3].other = hist[2].other
    /\ \E i \in 0..(NBits - 1) : Bit(hist[2].pre, i) /\ Bit(hist[2].other, i)
    /\ \E i \in 0..(NBits - 1) : Bit(hist[2].pre, i) /\ ~Bit(hist[2].other, i)
    /\ words # hist[2].pre /\ ~is_empty(words)

\* C8: A += B leaves bit i set iff it was set in A or in B; the result is
\* that of B += A, A += A leaves A and A += {} leaves A.
C8_Union ==
    Acted("add_assign") =>
       /\ \A i \in 0..(NBits - 1) :
             Bit(words, i) <=> (Bit(Last.pre, i) \/ Bit(Last.other, i))
       /\ words = add_assign(Last.other, Last.pre)
       /\ Last.other = Last.pre => words = Last.pre
       /\ is_empty(Last.other) => words = Last.pre

\* C8 happens: a union of two different bitboards, neither empty, neither
\* containing the other.
C8_Witness ==
    /\ Acted("add_assign")
    /\ \E i \in 0..(NBits - 1) : Bit(Last.pre, i) /\ ~Bit(Last.other, i)
    /\ \E i \in 0..(NBits - 1) : ~Bit(Last.pre, i) /\ Bit(Last.other, i)

\* C9: as long as every call made had its precondition, every bit of the last
\* word above position Remainder is zero.
C9_PaddingStaysZero ==
    (\A k \in 1..Len(hist) : PreOK(hist[k]))
    => \A b \in BitPos :
          b > Remainder(cap) => b \notin words[WordCount(cap) - 1]

\* C10: set_whole_line(line_no, line_size) with line_size in 1..63 and a line
\* that fits in the capacity does not abort.
C10_LineDoesNotAbort ==
    (Acted("set_whole_line") /\ PreOK(Last)) => ~aborted

====
